---- MODULE Spec2Model ----
(***************************************************************************)
(* LACTEVA milk-quality service: the model registry (the five artifact     *)
(* files a training script writes and ml-service/main.py loads at          *)
(* startup) and the request handlers of the ML service (root, health,      *)
(* predict, model-info).                                                   *)
(*                                                                         *)
(* Numbers.  main.py computes with floats; the model computes with exact   *)
(* integers in fixed units:                                                *)
(*   probabilities       in units of 1/PScale                              *)
(*   freshness score     in units of 1/(10*PScale)                         *)
(*   shelf life (hours)  in units of 1/PScale                              *)
(*   accuracy            in percent                                        *)
(* A feature value is NaN, +Infinity, -Infinity or a finite number.        *)
(* Python indices are kept 0-based; sequences here are 1-based, so an      *)
(* index i reads element i + 1.                                            *)
(***************************************************************************)
EXTENDS Integers, Sequences, FiniteSets, TLC

\* ------------------------------------------------------------------ bounds
\* largest feature count of a trained bundle besides the service default
MaxDim == 2
\* largest length of a request's feature list
MaxLen == 3
\* largest number of classes of a label encoder
MaxClasses == 3
\* largest number of rows of one label in a training dataset, in tens of rows
MaxRows == 3
\* largest number of rows of a dataset whose cells are enumerated
MaxTableRows == 3
\* resolution of the class probabilities: p / PScale
PScale == 4

\* ------------------------------------------------------- program constants
\* expected_features when no feature-name list is loaded
DefaultExpectedFeatures == 47
\* model accuracy reported when no metadata is loaded (0.95), in percent
DefaultAccuracy == 95
\* np.nan_to_num(posinf=1e6, neginf=-1e6)
Sentinel == 1000000
\* feature_names_list[:10]
TopFeatures == 10
\* fallback indices of the fresh and of the spoiled class
FreshFallbackIdx == 1
SpoiledFallbackIdx == 0
\* len(FEATURE_NAMES) of milk_quality_ml_training.py
LegacyFeatureCount == 18
\* np.random.seed(42)
RandomSeed == 42
\* train_test_split(test_size=0.2): one row in five goes to the test split
TestDivisor == 5
\* generate_synthetic_data(n_samples=5000)
SyntheticSamples == 5000

\* --------------------------------------------------------------- helpers
Range(s) == {s[i] : i \in DOMAIN s}

RECURSIVE SumSeq(_)
SumSeq(s) == IF s = <<>> THEN 0 ELSE Head(s) + SumSeq(Tail(s))

RECURSIVE MaxSeq(_)
\* Python's max() of a non-empty list of numbers
MaxSeq(s) ==
    IF Len(s) = 1 THEN s[1]
    ELSE LET m == MaxSeq(Tail(s)) IN IF Head(s) >= m THEN Head(s) ELSE m

Abs(x) == IF x < 0 THEN -x ELSE x

Min(a, b) == IF a <= b THEN a ELSE b

\* --------------------------------------------------------- feature values
NaN == [k |-> "nan", v |-> 0]
PosInf == [k |-> "inf", v |-> 0]
NegInf == [k |-> "-inf", v |-> 0]
Fin(x) == [k |-> "fin", v |-> x]

\* the float values a request may carry (MLInput.features: List[float])
FeatureValues == {NaN, PosInf, NegInf, Fin(-2)}

FeatureLists == UNION {[1..n -> FeatureValues] : n \in 0..MaxLen}

\* ------------------------------------------------------------ the labels
\* label strings of the datasets, and their order under np.unique (code points)
Labels == {"Fresh", "Spoiled", "fresh", "spoiled"}

LabelRank(l) ==
    CASE l = "Fresh" -> 1
      [] l = "Spoiled" -> 2
      [] l = "fresh" -> 3
      [] l = "spoiled" -> 4

\* LabelEncoder.fit: classes_ is the sorted list of the distinct labels
FitClasses(S) ==
    CHOOSE s \in [1..Cardinality(S) -> S] :
        \A i, j \in 1..Cardinality(S) : i < j => LabelRank(s[i]) < LabelRank(s[j])

ClassLists ==
    {FitClasses(S) : S \in {T \in SUBSET Labels : T # {} /\ Cardinality(T) <= MaxClasses}}

\* ------------------------------------------------------------ the bundle
\* The five artifacts, in the order save_models writes and load_models reads.
\* Field run is the training run that produced the object; run 0 is Python's
\* None (in memory) or a missing file (on disk).
Artifacts == <<"classifier", "scaler", "label_encoder", "feature_names", "model_metadata">>

NoBundle ==
    [classifier     |-> [run |-> 0, n_features |-> 0, n_classes |-> 0],
     scaler         |-> [run |-> 0, n_features |-> 0],
     label_encoder  |-> [run |-> 0, classes |-> <<>>],
     feature_names  |-> [run |-> 0, names |-> <<>>],
     model_metadata |-> [run |-> 0, keys |-> {}, model_name |-> "", accuracy |-> 0,
                         feature_count |-> 0, training_date |-> 0, classes |-> <<>>,
                         feature_names |-> <<>>]]

\* the keys of the metadata record the training scripts write; keys lists the
\* keys a record has, the field of a key it lacks holds an empty value
MetadataKeys ==
    {"model_name", "accuracy", "feature_count", "training_date", "classes", "feature_names"}

\* a faulty variant of MetadataGet that never finds the key
MetadataGetDefault(metadata, key, default) == default

\* metadata.get(key, default)
MetadataGet(metadata, key, default) ==
    IF key \in metadata.keys THEN metadata[key] ELSE default

\* accuracy (percent) a training run reports
RunAccuracy(v) == 100 - 10 * v

\* what a training run holds when it reaches save_models: a model and a scaler
\* fitted on E features, the fitted label encoder, the E feature names (named
\* by their position) and the metadata record
TrainedBundle(v, E, cls) ==
    [classifier     |-> [run |-> v, n_features |-> E, n_classes |-> Len(cls)],
     scaler         |-> [run |-> v, n_features |-> E],
     label_encoder  |-> [run |-> v, classes |-> cls],
     feature_names  |-> [run |-> v, names |-> [i \in 1..E |-> i]],
     model_metadata |-> [run |-> v, keys |-> MetadataKeys, model_name |-> "RandomForest",
                         accuracy |-> RunAccuracy(v), feature_count |-> E,
                         training_date |-> v, classes |-> cls,
                         feature_names |-> [i \in 1..E |-> i]]]

\* the scaler milk_quality_ml_training.py writes to models/scaler.joblib
LegacyScaler == [run |-> 3, n_features |-> LegacyFeatureCount]

\* Python truthiness of a bundle object: None is falsy
Truthy(obj) == obj.run # 0

\* truthiness of the feature-name list: None and the empty list are falsy
TruthyList(obj) == obj.run # 0 /\ obj.names # <<>>

\* ------------------------------------------------------------ the datasets
\* The training scripts: improved_ml_training.py, real_data_ml_training.py,
\* simple_real_data_training.py and milk_quality_ml_training.py.
Scripts == {"improved", "real_data", "simple", "milk_quality"}

\* Columns a dataset file may have, in header order: the identifier, the VOC
\* readings, spectral channels, the microbial count, the label, and columns
\* that carry the name of a derived feature.
CsvColumns ==
    <<"timestamp_ms", "VOC_raw", "VOC_voltage", "raw_ch0", "raw_ch2", "raw_ch4", "raw_ch8",
      "reflect_ch0", "absorb_ch0", "CFU_value", "label", "peak_intensity", "raw_sum">>

RawColumns == {"raw_ch0", "raw_ch2", "raw_ch4", "raw_ch8"}
ReflectColumns == {"reflect_ch0"}
AbsorbColumns == {"absorb_ch0"}

\* the columns S in header order
ColumnList(S) == SelectSeq(CsvColumns, LAMBDA c : c \in S)

\* df[name] = ...: an existing column keeps its place, a new one goes last
Assign(columns, name) ==
    IF name \in Range(columns) THEN columns ELSE Append(columns, name)

RECURSIVE AssignAll(_, _)
AssignAll(columns, names) ==
    IF names = <<>> THEN columns
    ELSE AssignAll(Assign(columns, Head(names)), Tail(names))

\* [col for col in df.columns if col not in exclude]
Excluding(columns, exclude) == SelectSeq(columns, LAMBDA c : c \notin exclude)

\* the columns preprocess_data keeps out of the feature columns
ExcludeCols(script) ==
    CASE script = "improved" -> {"timestamp_ms", "label", "CFU_value", "timestamp"}
      [] script = "real_data" -> {"timestamp_ms", "label", "CFU_value"}
      [] script = "simple" -> {"timestamp_ms", "label"}

\* ---------------------------------------------------- the cells of a frame
\* A frame whose values matter is a list of rows; a row has its label ("" when
\* the label is missing) and the cells of its numeric columns.  A NaN cell is
\* a missing value.
MissingLabel == ""

\* df.replace([np.inf, -np.inf], np.nan) on one cell
InfToNaN(v) == IF v \in {PosInf, NegInf} THEN NaN ELSE v

\* df.replace([np.inf, -np.inf], [1e6, -1e6]) on one cell
InfToSentinel(v) ==
    IF v = PosInf THEN Fin(Sentinel) ELSE IF v = NegInf THEN Fin(-Sentinel) ELSE v

\* series.fillna(fill) on one cell
FillNa(v, fill) == IF v = NaN THEN fill ELSE v

\* the cells of column c, row by row
ColumnValues(table, c) == [i \in 1..Len(table) |-> table[i].cells[c]]

\* the numbers of a column, in row order: NaN cells are skipped
Numbers(values) ==
    LET present == SelectSeq(values, LAMBDA v : v.k = "fin")
    IN [i \in 1..Len(present) |-> present[i].v]

RECURSIVE Sorted(_)
\* the numbers s in ascending order
Sorted(s) ==
    IF s = <<>> THEN <<>>
    ELSE LET rest == Sorted(Tail(s))
         IN SelectSeq(rest, LAMBDA x : x <= Head(s)) \o <<Head(s)>>
            \o SelectSeq(rest, LAMBDA x : x > Head(s))

\* series.median(): NaN cells are skipped; the middle number, or the mean of
\* the two middle numbers; NaN when no number is left
Median(values) ==
    LET s == Sorted(Numbers(values))
        n == Len(s)
    IN IF n = 0 THEN NaN
       ELSE IF n % 2 = 1 THEN Fin(s[(n + 1) \div 2])
       ELSE Fin((s[n \div 2] + s[n \div 2 + 1]) \div 2)

\* the feature columns whose missing values become 0 without a look at the
\* median: improved_ml_training.py takes every name that contains 'ch', 'raw',
\* 'reflect' or 'absorb', real_data_ml_training.py the names that start with
\* 'raw_ch', 'reflect_ch' or 'absorb_ch', simple_real_data_training.py every
\* feature column
ZeroFilled(script) ==
    CASE script = "improved" ->
           RawColumns \cup ReflectColumns \cup AbsorbColumns \cup {"VOC_raw", "raw_sum"}
      [] script = "real_data" -> RawColumns \cup ReflectColumns \cup AbsorbColumns
      [] script = "simple" -> Range(CsvColumns)

\* what a missing value of feature column c becomes; values: the column at
\* the time of the fill
FillValue(script, c, values) ==
    IF c \in ZeroFilled(script) THEN Fin(0)
    ELSE LET median_val == Median(values)
         IN IF median_val = NaN THEN Fin(0) ELSE median_val

\* the frame of improved_ml_training.py and real_data_ml_training.py after
\* the replace and the fill loop: every cell loses its infinity, the cells of
\* the feature columns are filled
ReplacedAndFilled(script, table, feature_cols) ==
    LET replaced == [i \in 1..Len(table) |->
                       [table[i] EXCEPT !.cells = [c \in DOMAIN @ |-> InfToNaN(@[c])]]]
    IN [i \in 1..Len(table) |->
          [replaced[i] EXCEPT !.cells =
             [c \in DOMAIN @ |->
                IF c \in Range(feature_cols)
                THEN FillNa(@[c], FillValue(script, c, ColumnValues(replaced, c)))
                ELSE @[c]]]]

\* the frame of simple_real_data_training.py after fillna(0) and the replace
\* of the infinities, both on the feature columns
FilledAndReplaced(script, table, feature_cols) ==
    [i \in 1..Len(table) |->
       [table[i] EXCEPT !.cells =
          [c \in DOMAIN @ |->
             IF c \in Range(feature_cols)
             THEN InfToSentinel(FillNa(@[c], FillValue(script, c, ColumnValues(table, c))))
             ELSE @[c]]]]

\* the frame before the rows without a label are dropped
CleanCells(script, table, feature_cols) ==
    IF script = "simple" THEN FilledAndReplaced(script, table, feature_cols)
    ELSE ReplacedAndFilled(script, table, feature_cols)

\* df.dropna(subset=['label'])
DropMissingLabels(table) == SelectSeq(table, LAMBDA r : r.label # MissingLabel)

\* the frame preprocess_data returns
CleanTable(script, table, feature_cols) ==
    DropMissingLabels(CleanCells(script, table, feature_cols))

\* The object the caller passed to preprocess_data, after the call.
\* df = df.replace(...) binds the local name to a new frame, so the fill loop
\* of improved_ml_training.py and real_data_ml_training.py writes to that new
\* frame; simple_real_data_training.py assigns df[feature_cols] = ... before
\* any rebinding, which writes to the caller's object.
PassedAfter(script, table, feature_cols) ==
    IF script = "simple" THEN FilledAndReplaced(script, table, feature_cols)
    ELSE table

\* The derived features of a script, in the order the code assigns them: the
\* names of a group and whether the group's condition holds on the columns
\* (for simple_real_data_training.py: on the feature columns).
DerivedGroups(script, columns, feature_cols) ==
    CASE script = "improved" ->
           <<[names |-> <<"peak_intensity", "total_intensity", "intensity_mean",
                          "intensity_std", "intensity_range">>,
              cond |-> Range(columns) \cap RawColumns # {}],
             [names |-> <<"avg_reflectance", "reflectance_std", "reflectance_range">>,
              cond |-> Range(columns) \cap ReflectColumns # {}],
             [names |-> <<"avg_absorbance", "absorbance_std", "max_absorbance">>,
              cond |-> Range(columns) \cap AbsorbColumns # {}],
             [names |-> <<"voc_normalized">>, cond |-> "VOC_raw" \in Range(columns)],
             [names |-> <<"voc_voltage_normalized">>,
              cond |-> "VOC_voltage" \in Range(columns)],
             [names |-> <<"red_blue_ratio", "nir_red_ratio">>,
              cond |-> Cardinality(Range(columns) \cap RawColumns) >= 4],
             [names |-> <<"log_cfu", "cfu_normalized">>,
              cond |-> "CFU_value" \in Range(columns)]>>
      [] script = "real_data" ->
           <<[names |-> <<"peak_intensity", "peak_channel", "total_intensity",
                          "intensity_std">>,
              cond |-> Range(columns) \cap RawColumns # {}],
             [names |-> <<"avg_reflectance", "reflectance_range">>,
              cond |-> Range(columns) \cap ReflectColumns # {}],
             [names |-> <<"avg_absorbance", "absorbance_slope">>,
              cond |-> Range(columns) \cap AbsorbColumns # {}],
             [names |-> <<"voc_ratio">>,
              cond |-> {"VOC_raw", "VOC_voltage"} \subseteq Range(columns)],
             [names |-> <<"ndvi_like">>,
              cond |-> {"raw_ch4", "raw_ch8"} \subseteq Range(columns)],
             [names |-> <<"log_cfu">>, cond |-> "CFU_value" \in Range(columns)]>>
      [] script = "simple" ->
           <<[names |-> <<"raw_sum", "raw_mean", "raw_max", "raw_std">>,
              cond |-> Range(feature_cols) \cap RawColumns # {}],
             [names |-> <<"reflect_sum", "reflect_mean">>,
              cond |-> Range(feature_cols) \cap ReflectColumns # {}],
             [names |-> <<"absorb_sum", "absorb_mean">>,
              cond |-> Range(feature_cols) \cap AbsorbColumns # {}]>>

\* new_features: the names the script looks for after engineering
NewFeatures(script) ==
    CASE script = "improved" ->
           <<"peak_intensity", "total_intensity", "intensity_mean", "intensity_std",
             "intensity_range", "avg_reflectance", "reflectance_std", "reflectance_range",
             "avg_absorbance", "absorbance_std", "max_absorbance", "voc_normalized",
             "voc_voltage_normalized", "red_blue_ratio", "nir_red_ratio", "log_cfu",
             "cfu_normalized">>
      [] script = "real_data" ->
           <<"peak_intensity", "peak_channel", "total_intensity", "intensity_std",
             "avg_reflectance", "reflectance_range", "avg_absorbance", "absorbance_slope",
             "voc_ratio", "ndvi_like", "log_cfu">>
      [] script = "simple" ->
           <<"raw_sum", "raw_mean", "raw_max", "raw_std", "reflect_sum", "reflect_mean",
             "absorb_sum", "absorb_mean">>

\* the derived columns the call computed
RECURSIVE CreatedBy(_)
CreatedBy(groups) ==
    IF groups = <<>> THEN {}
    ELSE (IF Head(groups).cond THEN Range(Head(groups).names) ELSE {})
         \cup CreatedBy(Tail(groups))

\* the columns of the frame after the assignments of the groups
RECURSIVE ColumnsAfter(_, _)
ColumnsAfter(columns, groups) ==
    IF groups = <<>> THEN columns
    ELSE ColumnsAfter(IF Head(groups).cond THEN AssignAll(columns, Head(groups).names)
                      ELSE columns,
                      Tail(groups))

\* available_new_features = [f for f in new_features if f in df.columns]
AvailableNewFeatures(script, columns) ==
    SelectSeq(NewFeatures(script), LAMBDA f : f \in Range(columns))

\* engineer_features / create_simple_features: the frame's columns, the
\* derived columns it computed and the feature-name list it leaves
EngineerFeatures(script, columns, feature_cols) ==
    LET groups == DerivedGroups(script, columns, feature_cols)
        after  == ColumnsAfter(columns, groups)
    IN [columns |-> after,
        created |-> CreatedBy(groups),
        feature_names |-> feature_cols \o AvailableNewFeatures(script, after)]

VARIABLES
    models_dir,           \* the files of ml-service/models/
    trainer,              \* a training script at save_models
    pipeline,             \* a training script on its way to save_models
    classifier_model, feature_scaler, label_encoder, feature_names_list, model_metadata,
    load_pc,              \* artifacts load_models has gone through
    response,             \* what the last handler call returned or raised
    predict_locals,       \* the locals of the last predict call
    log,                  \* the records the logger got from the call in progress
    np_random,            \* the state of numpy's process-wide generator
    classifier_memo,      \* the answers the fitted classifier has given so far
    answered,             \* the first response given to each request
    fit_memo,             \* the results the fits of the estimators have given so far
    first_run             \* the first run of the training script, once it is over

vars == <<models_dir, trainer, pipeline, classifier_model, feature_scaler, label_encoder,
          feature_names_list, model_metadata, load_pc, response, predict_locals,
          log, np_random, classifier_memo, answered, fit_memo, first_run>>

\* what is recorded about the requests served and the training runs, not
\* state of the service or of a script
observer_vars == <<classifier_memo, answered, fit_memo, first_run>>

\* the state of the service process
service_vars == <<classifier_model, feature_scaler, label_encoder, feature_names_list,
                  model_metadata, load_pc, response, predict_locals, log, np_random,
                  classifier_memo, answered, fit_memo, first_run>>

bundle_vars == <<classifier_model, feature_scaler, label_encoder, feature_names_list,
                 model_metadata>>

\* ------------------------------------------------- predict: pure functions
\* expected_features = len(feature_names_list) if feature_names_list else 47
ExpectedFeatures(names) ==
    IF TruthyList(names) THEN Len(names.names) ELSE DefaultExpectedFeatures

\* a faulty variant of AlignFeatures: the zeros go in front, the tail is kept on truncation
AlignFeaturesFront(features, expected) ==
    IF Len(features) < expected
    THEN [i \in 1..(expected - Len(features)) |-> Fin(0)] \o features
    ELSE SubSeq(features, Len(features) - expected + 1, Len(features))

\* the length reconciliation of the input: pad with 0.0, truncate, or pass through
AlignFeatures(features, expected) ==
    IF Len(features) # expected
    THEN IF Len(features) < expected
         THEN features \o [i \in 1..(expected - Len(features)) |-> Fin(0)]
         ELSE SubSeq(features, 1, expected)
    ELSE features

\* a faulty variant of NanToNum: only NaN is replaced, the infinities pass
NanToNumNaNOnly(x) == IF x.k = "nan" THEN Fin(0) ELSE x

\* np.nan_to_num(x, nan=0.0, posinf=1e6, neginf=-1e6) of one entry
NanToNum(x) ==
    CASE x.k = "nan" -> Fin(0)
      [] x.k = "inf" -> Fin(Sentinel)
      [] x.k = "-inf" -> Fin(-Sentinel)
      [] OTHER -> x

Sanitise(features) == [i \in DOMAIN features |-> NanToNum(features[i])]

\* list(classes).index(name): the 0-based position of the first occurrence
IndexOf(classes, name) ==
    CHOOSE i \in 0..(Len(classes) - 1) :
        /\ classes[i + 1] = name
        /\ \A j \in 0..(i - 1) : classes[j + 1] # name

\* a faulty variant of FreshClassIdx: no lookup by name, always the fallback index
FreshClassIdxFixed(classes) == FreshFallbackIdx

FreshClassIdx(classes) ==
    IF "fresh" \in Range(classes) THEN IndexOf(classes, "fresh") ELSE FreshFallbackIdx

SpoiledClassIdx(classes) ==
    IF "Spoiled" \in Range(classes) THEN IndexOf(classes, "Spoiled") ELSE SpoiledFallbackIdx

\* the score of the fresh branch: 0.7 + 0.3 p and 48 + 24 p
FreshScore(p) ==
    [freshness_prediction |-> 7 * PScale + 3 * p,
     shelf_life_hours     |-> 48 * PScale + 24 * p,
     prediction_label     |-> "fresh"]

\* a faulty variant of SpoiledScore: the shelf life of the fresh branch
SpoiledScoreFreshHours(q) ==
    [freshness_prediction |-> 3 * q,
     shelf_life_hours     |-> 48 * PScale + 24 * q,
     prediction_label     |-> "spoiled"]

\* the score of the other branch: 0.3 q and 12 q
SpoiledScore(q) ==
    [freshness_prediction |-> 3 * q,
     shelf_life_hours     |-> 12 * q,
     prediction_label     |-> "spoiled"]

\* confidence = float(max(probabilities))
Confidence(probabilities) == MaxSeq(probabilities)

\* accuracy = model_metadata.get('accuracy', 0.95) if model_metadata else 0.95
ModelAccuracy(metadata) ==
    IF Truthy(metadata) THEN MetadataGet(metadata, "accuracy", DefaultAccuracy)
    ELSE DefaultAccuracy

\* An importance value is NaN or the number num / (max + 1e-6).
ImpNaN == [k |-> "nan", num |-> 0, max |-> 0]
ImpRatio(n, m) == [k |-> "fin", num |-> n, max |-> m]

\* np.abs(padded_features) / (np.max(np.abs(padded_features)) + 1e-6), entry i:
\* a NaN anywhere makes the maximum NaN; otherwise an infinity makes it infinite,
\* and then inf / inf is NaN and finite / inf is 0.0
NormalizedFeature(padded, i) ==
    IF \E j \in DOMAIN padded : padded[j].k = "nan"
    THEN ImpNaN
    ELSE IF \E j \in DOMAIN padded : padded[j].k \in {"inf", "-inf"}
         THEN IF padded[i].k = "fin" THEN ImpRatio(0, 0) ELSE ImpNaN
         ELSE ImpRatio(Abs(padded[i].v), MaxSeq([j \in DOMAIN padded |-> Abs(padded[j].v)]))

\* the feature_importance dict: filled from the first 10 feature names when the
\* list is loaded and as long as the aligned input, else left empty
FeatureImportance(names, padded) ==
    IF TruthyList(names) /\ Len(names.names) = Len(padded)
    THEN [n \in {names.names[i] : i \in 1..Min(TopFeatures, Len(names.names))} |->
              NormalizedFeature(padded, CHOOSE i \in 1..Len(names.names) : names.names[i] = n)]
    ELSE <<>>

\* what the classifier can answer: a class index and a probability per class
ProbVectors(c) == {q \in [1..c -> 0..PScale] : SumSeq(q) = PScale}

ClassifierOutputs(c) ==
    [prediction : 0..(c - 1), probabilities : ProbVectors(c)]

NoOutput == [prediction |-> 0, probabilities |-> <<>>]

\* the answers of the loaded classifier (none when it is not loaded)
OutputsOf(model) ==
    IF Truthy(model) THEN ClassifierOutputs(model.n_classes) ELSE {NoOutput}

\* -------------------------------------------------------- predict: handler
NoResult ==
    [freshness_prediction |-> 0, shelf_life_hours |-> 0, confidence |-> 0,
     model_accuracy |-> 0, prediction_label |-> "", feature_importance |-> <<>>]

NoCall ==
    [stage |-> "none", raised |-> "", input |-> <<>>, expected_features |-> 0,
     padded_features |-> <<>>, features |-> <<>>, output |-> NoOutput,
     fresh_class_idx |-> 0, spoiled_class_idx |-> 0, result |-> NoResult]

\* if not all([classifier_model, feature_scaler, label_encoder])
ModelsLoaded ==
    Truthy(classifier_model) /\ Truthy(feature_scaler) /\ Truthy(label_encoder)

\* str.lower() on a label
Lower(l) ==
    CASE l = "Fresh" -> "fresh"
      [] l = "Spoiled" -> "spoiled"
      [] OTHER -> l

\* label_encoder.inverse_transform([prediction])[0]
InverseTransform(classes, prediction) == classes[prediction + 1]

\* MLOutput(...) of the two scoring branches
MLOutputOf(score, padded, probabilities) ==
    [freshness_prediction |-> score.freshness_prediction,
     shelf_life_hours     |-> score.shelf_life_hours,
     confidence           |-> Confidence(probabilities),
     model_accuracy       |-> ModelAccuracy(model_metadata),
     prediction_label     |-> Lower(score.prediction_label),
     feature_importance   |-> FeatureImportance(feature_names_list, padded)]

\* The try block of predict, run on the request's features and on the answer
\* out of the classifier: the locals it computed, the exception it raised
\* (raised, "" for none) and the value it returned (result).
\*   scaler.transform and classifier.predict raise ValueError on an input of
\*   another width than the one they were fitted on; inverse_transform raises
\*   ValueError on a class index the encoder does not know; probabilities[i]
\*   raises IndexError past the end.
PredictTry(input, out) ==
    IF ~ModelsLoaded
    THEN [NoCall EXCEPT !.stage = "models_check", !.raised = "HTTPException503",
                        !.input = input]
    ELSE
    LET expected == ExpectedFeatures(feature_names_list)
        padded   == AlignFeatures(input, expected)
        features == Sanitise(padded)
        t0 == [NoCall EXCEPT !.input = input, !.expected_features = expected,
                             !.padded_features = padded, !.features = features]
    IN
    IF Len(features) # feature_scaler.n_features
    THEN [t0 EXCEPT !.stage = "scale", !.raised = "ValueError"]
    ELSE IF Len(features) # classifier_model.n_features
    THEN [t0 EXCEPT !.stage = "classify", !.raised = "ValueError"]
    ELSE
    LET t1 == [t0 EXCEPT !.output = out] IN
    IF out.prediction >= Len(label_encoder.classes)
    THEN [t1 EXCEPT !.stage = "decode", !.raised = "ValueError"]
    ELSE
    LET fi == FreshClassIdx(label_encoder.classes)
        si == SpoiledClassIdx(label_encoder.classes)
        t2 == [t1 EXCEPT !.fresh_class_idx = fi, !.spoiled_class_idx = si]
    IN
    IF out.prediction = fi
    THEN [t2 EXCEPT !.stage = "return",
                    !.result = MLOutputOf(FreshScore(out.probabilities[fi + 1]),
                                          padded, out.probabilities)]
    ELSE IF si >= Len(out.probabilities)
    THEN [t2 EXCEPT !.stage = "score", !.raised = "IndexError"]
    ELSE [t2 EXCEPT !.stage = "return",
                    !.result = MLOutputOf(SpoiledScore(out.probabilities[si + 1]),
                                          padded, out.probabilities)]

\* except Exception as e: raise HTTPException(status_code=500, ...); the clause
\* catches every exception of the try block, HTTPException included
ExceptClause(raised) == [kind |-> "HTTPException", status_code |-> 500]

\* what the caller of predict gets
PredictResponse(t) ==
    IF t.raised # ""
    THEN ExceptClause(t.raised)
    ELSE [kind |-> "MLOutput", status_code |-> 200] @@ t.result

\* ---------------------------------------------------- predict: the logger
LogRecord(level, msg) == [level |-> level, msg |-> msg]

\* a faulty variant of AlignWarnings: the truncation goes unreported
AlignWarningsPadOnly(features, expected) ==
    IF Len(features) < expected THEN <<LogRecord("WARNING", "Padded features")>> ELSE <<>>

\* logger.warning of the length reconciliation
AlignWarnings(features, expected) ==
    IF Len(features) # expected
    THEN IF Len(features) < expected
         THEN <<LogRecord("WARNING", "Padded features")>>
         ELSE <<LogRecord("WARNING", "Truncated features")>>
    ELSE <<>>

\* a faulty variant of ExceptLog: the error is swallowed without a record
ExceptLogSilent(raised) == <<>>

\* logger.error of the except clause
ExceptLog(raised) == <<LogRecord("ERROR", "Prediction error")>>

\* what a predict call has sent to the logger, given how far it got (stage),
\* what it raised, its input and the expected dimension
PredictLog(stage, raised, input, expected) ==
    (IF stage = "models_check" THEN <<>> ELSE AlignWarnings(input, expected))
    \o (IF raised # "" THEN ExceptLog(raised) ELSE <<>>)

\* ------------------------------------------- predict: the random generator
\* numpy's global generator: the seed it was last given (0: the entropy of the
\* operating system, taken at import) and whether numbers were drawn since
UnseededGenerator == [seed |-> 0, drawn |-> FALSE]

\* a faulty variant of NpRandomSeed: the generator is left as it is
NpRandomSeedSkipped(state, seed) == state

\* np.random.seed(seed)
NpRandomSeed(state, seed) == [seed |-> seed, drawn |-> FALSE]

\* the call reached np.random.seed: the scaler did not raise
ReachedSeed(stage) == stage \notin {"none", "models_check", "scale"}

\* the classifier answered: predict and predict_proba did not raise
Classified(stage) == ReachedSeed(stage) /\ stage # "classify"

\* the generator the classifier runs on in a call that got as far as stage
GeneratorAtClassifier(stage) ==
    IF ReachedSeed(stage) THEN NpRandomSeed(np_random, RandomSeed) ELSE np_random

\* the generator after the call; draws: the estimator drew numbers from it
GeneratorAfter(stage, draws) ==
    [GeneratorAtClassifier(stage) EXCEPT !.drawn = @ \/ (Classified(stage) /\ draws)]

\* the service accepts requests once lifespan has run load_models
Serving == load_pc = Len(Artifacts)

\* The handlers are coroutines that never await: the event loop runs one call
\* to its end and sends its response before it starts the next.
NoResponse == [kind |-> "none", status_code |-> 0]

Idle == response = NoResponse

\* the response is sent; the call's locals are gone
respond ==
    /\ ~Idle
    /\ response' = NoResponse
    /\ predict_locals' = NoCall
    /\ log' = <<>>
    /\ UNCHANGED <<pipeline, models_dir, trainer, bundle_vars, load_pc, np_random, observer_vars>>

\* One call of the handler of POST /predict on the request's features, with
\* the answer out of the classifier: its locals, its response, its log records
\* and the generator (an estimator that answered may have drawn numbers).
predict_call(input, out) ==
    /\ predict_locals' = PredictTry(input, out)
    /\ response' = PredictResponse(predict_locals')
    /\ log' = PredictLog(predict_locals'.stage, predict_locals'.raised, input,
                         predict_locals'.expected_features)
    /\ \E draws \in {FALSE, Classified(predict_locals'.stage)} :
         np_random' = GeneratorAfter(predict_locals'.stage, draws)

\* a faulty variant of predict: a call that finds no metadata installs a default record
predictInstallingDefault(input, out) ==
    /\ Serving
    /\ Idle
    /\ predict_call(input, out)
    /\ model_metadata' = IF Truthy(model_metadata) THEN model_metadata
                         ELSE [NoBundle.model_metadata EXCEPT
                                 !.run = 1, !.keys = {"accuracy"},
                                 !.accuracy = DefaultAccuracy]
    /\ UNCHANGED <<pipeline, models_dir, trainer, classifier_model, feature_scaler, label_encoder,
                   feature_names_list, load_pc, observer_vars>>

\* POST /predict
predict(input, out) ==
    /\ Serving
    /\ Idle
    /\ predict_call(input, out)
    /\ UNCHANGED <<pipeline, models_dir, trainer, bundle_vars, load_pc, observer_vars>>

\* The fitted estimator computes its answer from the vector it is given and,
\* at most, from the generator it runs on: the answers recorded for that pair.
ClassifierKey(features, generator) == [features |-> features, generator |-> generator]

MemoAnswers(key) == {m.out : m \in {n \in classifier_memo : n.key = key}}

\* the response recorded for a request, and whether it was sent more than once
Record(input, resp) ==
    IF \E a \in answered : a.input = input
    THEN {IF a.input = input THEN [a EXCEPT !.again = TRUE] ELSE a : a \in answered}
    ELSE answered \cup {[input |-> input, response |-> resp, again |-> FALSE]}

\* POST /predict, with the classifier's answers and the responses recorded
predict_observed(input, out) ==
    /\ Serving
    /\ Idle
    /\ predict_call(input, out)
    /\ LET key == ClassifierKey(predict_locals'.features,
                                GeneratorAtClassifier(predict_locals'.stage))
       IN IF Classified(predict_locals'.stage)
          THEN /\ MemoAnswers(key) \subseteq {out}
               /\ classifier_memo' = classifier_memo \cup {[key |-> key, out |-> out]}
          ELSE classifier_memo' = classifier_memo
    /\ answered' = Record(input, response')
    /\ UNCHANGED <<pipeline, models_dir, trainer, bundle_vars, load_pc, fit_memo, first_run>>

\* GET /
root ==
    /\ Serving
    /\ Idle
    /\ response' =
         [kind |-> "root", status_code |-> 200,
          models_loaded |-> [classifier    |-> Truthy(classifier_model),
                             scaler        |-> Truthy(feature_scaler),
                             label_encoder |-> Truthy(label_encoder)],
          model_info |-> IF Truthy(model_metadata)
                         THEN [text |-> "", metadata |-> model_metadata]
                         ELSE [text |-> "No metadata available",
                               metadata |-> NoBundle.model_metadata]]
    /\ log' = <<>>
    /\ UNCHANGED <<pipeline, models_dir, trainer, bundle_vars, load_pc, predict_locals, np_random,
                   observer_vars>>

\* GET /health: the type name of each loaded object, None for the others, and
\* the metadata's accuracy or 'N/A'
health_check ==
    /\ Serving
    /\ Idle
    /\ response' =
         [kind |-> "health", status_code |-> 200,
          models |-> [classifier    |-> IF Truthy(classifier_model) THEN "Classifier" ELSE "None",
                      scaler        |-> IF Truthy(feature_scaler) THEN "StandardScaler" ELSE "None",
                      label_encoder |-> IF Truthy(label_encoder) THEN "LabelEncoder" ELSE "None"],
          accuracy |-> IF Truthy(model_metadata) /\ "accuracy" \in model_metadata.keys
                       THEN [text |-> "", value |-> model_metadata.accuracy]
                       ELSE [text |-> "N/A", value |-> 0]]
    /\ log' = <<>>
    /\ UNCHANGED <<pipeline, models_dir, trainer, bundle_vars, load_pc, predict_locals, np_random,
                   observer_vars>>

\* GET /model-info
get_model_info ==
    /\ Serving
    /\ Idle
    /\ response' =
         IF ~Truthy(model_metadata)
         THEN [kind |-> "HTTPException", status_code |-> 404]
         ELSE [kind |-> "model_info", status_code |-> 200,
               model_name    |-> MetadataGet(model_metadata, "model_name", "Unknown"),
               accuracy      |-> IF "accuracy" \in model_metadata.keys
                                 THEN [text |-> "", value |-> model_metadata.accuracy]
                                 ELSE [text |-> "N/A", value |-> 0],
               feature_count |-> MetadataGet(model_metadata, "feature_count", 0),
               training_date |-> IF "training_date" \in model_metadata.keys
                                 THEN [text |-> "", value |-> model_metadata.training_date]
                                 ELSE [text |-> "Unknown", value |-> 0],
               classes       |-> MetadataGet(model_metadata, "classes", <<>>),
               feature_names |-> IF TruthyList(feature_names_list)
                                 THEN SubSeq(feature_names_list.names, 1,
                                             Min(TopFeatures, Len(feature_names_list.names)))
                                 ELSE <<>>]
    /\ log' = <<>>
    /\ UNCHANGED <<pipeline, models_dir, trainer, bundle_vars, load_pc, predict_locals, np_random,
                   observer_vars>>

\* ------------------------------------------------------------ load_models
\* One artifact of load_models: if os.path.exists(file): obj = joblib.load(file).
\* The new value of the global that holds artifact a, whose old value is old.
LoadArtifact(a, old, raises) ==
    IF Artifacts[load_pc + 1] = a /\ models_dir[a].run # 0 /\ ~raises
    THEN models_dir[a]
    ELSE old

\* logger.info after each joblib.load, logger.error of the except clause
LoadLog(a, raises) ==
    IF raises THEN <<LogRecord("ERROR", "Error loading models")>>
    ELSE IF models_dir[a].run # 0 THEN <<LogRecord("INFO", a)>>
    ELSE <<>>

\* lifespan runs load_models before the service accepts a request.  A step
\* goes through the next artifact; joblib.load of an existing file may raise
\* (an unreadable pickle), which the except clause logs, ending load_models.
load_models ==
    /\ load_pc < Len(Artifacts)
    /\ \E raises \in BOOLEAN :
         /\ raises => models_dir[Artifacts[load_pc + 1]].run # 0
         /\ load_pc' = IF raises THEN Len(Artifacts) ELSE load_pc + 1
         /\ classifier_model' = LoadArtifact("classifier", classifier_model, raises)
         /\ feature_scaler' = LoadArtifact("scaler", feature_scaler, raises)
         /\ label_encoder' = LoadArtifact("label_encoder", label_encoder, raises)
         /\ feature_names_list' = LoadArtifact("feature_names", feature_names_list, raises)
         /\ model_metadata' = LoadArtifact("model_metadata", model_metadata, raises)
         /\ log' = log \o LoadLog(Artifacts[load_pc + 1], raises)
    /\ UNCHANGED <<pipeline, models_dir, trainer, response, predict_locals, np_random,
                   observer_vars>>

\* ------------------------------------------------------------ save_models
\* the training script that is not at save_models
NoTrainer == [status |-> "none", pc |-> 0, bundle |-> NoBundle]

\* the directory after joblib.dump of artifact a of bundle b
Dump(dir, b, a) == [dir EXCEPT ![a] = b[a]]

\* save_models of a training script: one joblib.dump after the other, each
\* straight onto the file the service reads
save_models ==
    /\ trainer.status \in {"ready", "saving"}
    /\ models_dir' = Dump(models_dir, trainer.bundle, Artifacts[trainer.pc + 1])
    /\ trainer' = [trainer EXCEPT !.pc = @ + 1,
                                  !.status = IF trainer.pc + 1 = Len(Artifacts)
                                             THEN "done" ELSE "saving"]
    /\ UNCHANGED <<pipeline, bundle_vars, load_pc, response, predict_locals, log, np_random,
                   observer_vars>>

\* a joblib.dump raises (or the script is killed): save_models has no handler
\* and no cleanup, the files written so far stay
save_models_raises ==
    /\ trainer.status \in {"ready", "saving"}
    /\ trainer' = [trainer EXCEPT !.status = "failed"]
    /\ UNCHANGED <<pipeline, models_dir, bundle_vars, load_pc, response, predict_locals, log,
                   np_random, observer_vars>>

\* save_models of milk_quality_ml_training.py: of the five files it writes
\* scaler.joblib only, a scaler fitted on its own FEATURE_NAMES
legacy_save_models ==
    /\ models_dir.scaler # LegacyScaler
    /\ models_dir' = [models_dir EXCEPT !.scaler = LegacyScaler]
    /\ UNCHANGED <<pipeline, trainer, bundle_vars, load_pc, response, predict_locals, log,
                   np_random, observer_vars>>

\* ------------------------------------------------------ the training scripts
\* rows of a dataset by label; missing: rows whose label is missing
NoRows == [fresh |-> 0, spoiled |-> 0, missing |-> 0]

\* the dataset files: their header, their rows counted by label and, where
\* the values matter, the rows cell by cell (table; empty: values left open)
NoDataset == [exists |-> FALSE, columns |-> <<>>, rows |-> NoRows, table |-> <<>>]

\* The run of a training script: where it is (pc), how it ended (outcome: ""
\* while it runs, "aborted" for a reported failure and return False, "raised"
\* for an exception nobody handles, "done"), the files it reads (csv), the
\* frame (df_columns, rows), and the attributes and locals of the script.
\* fitted and transformed list the calls of fit and of scaler.transform.
\* table: the cells of the frame df; passed: the object that was handed to
\* preprocess_data, as it is after the call; started: the date of the run.
NoPipeline ==
    [script |-> "none", pc |-> "none", outcome |-> "", raised |-> "",
     csv |-> NoDataset, df_columns |-> <<>>, rows |-> NoRows,
     table |-> <<>>, passed |-> <<>>, started |-> 0,
     feature_cols |-> <<>>, feature_names |-> <<>>, created |-> {},
     classes |-> <<>>, split |-> [done |-> FALSE, n_train |-> 0, n_test |-> 0],
     fitted |-> <<>>, transformed |-> <<>>, results |-> <<>>,
     best_model |-> "", best_accuracy |-> 0]

\* a script started on the dataset files csv
StartPipeline(script, csv) ==
    [NoPipeline EXCEPT !.script = script, !.pc = "load", !.csv = csv, !.started = 1]

\* no run is over yet
NoRun == [pipeline |-> NoPipeline, models_dir |-> NoBundle]

Raise(p, exc) == [p EXCEPT !.pc = "exit", !.outcome = "raised", !.raised = exc]

\* print(...) and return False
Abort(p) == [p EXCEPT !.pc = "exit", !.outcome = "aborted"]

Running(pc) == pipeline.outcome = "" /\ pipeline.pc = pc

\* the rows that are left after dropna(subset=['label'])
LabelledRows(rows) == [rows EXCEPT !.missing = 0]

NumRows(rows) == rows.fresh + rows.spoiled + rows.missing

\* the distinct labels of the rows
LabelsPresent(rows) ==
    (IF rows.fresh > 0 THEN {"fresh"} ELSE {}) \cup (IF rows.spoiled > 0 THEN {"spoiled"} ELSE {})

\* the rows of the rarest label present
LeastPopulated(rows) ==
    IF rows.fresh = 0 THEN rows.spoiled
    ELSE IF rows.spoiled = 0 THEN rows.fresh
    ELSE Min(rows.fresh, rows.spoiled)

\* load_datasets / load_and_prepare_data: the two files are read and
\* concatenated; a missing file is reported and the run returns False.
\* milk_quality_ml_training.py reads no file: it generates its data and goes
\* on to the split.
load_datasets ==
    /\ Running("load")
    /\ pipeline' =
         IF pipeline.script = "milk_quality"
         THEN [pipeline EXCEPT !.pc = "split",
                               !.feature_names = [i \in 1..LegacyFeatureCount |-> "feature"]]
         ELSE IF ~pipeline.csv.exists THEN Abort(pipeline)
         ELSE [pipeline EXCEPT !.pc = "preprocess",
                               !.df_columns = pipeline.csv.columns,
                               !.rows = pipeline.csv.rows,
                               !.table = pipeline.csv.table]
    /\ UNCHANGED <<models_dir, trainer, service_vars>>

\* the scripts that stop when no row is left after cleaning
PreprocessChecksRows(script) == script \in {"real_data", "simple"}

\* preprocess_data, with the caller's check of its result: the feature columns
\* are the columns not excluded, their missing and infinite cells are
\* replaced, the rows without a label are dropped
preprocess_data ==
    /\ Running("preprocess")
    /\ LET cols == Excluding(pipeline.df_columns, ExcludeCols(pipeline.script))
           rows == LabelledRows(pipeline.rows)
           cleaned == [pipeline EXCEPT
                         !.rows = rows,
                         !.table = CleanTable(pipeline.script, pipeline.table, cols),
                         !.passed = PassedAfter(pipeline.script, pipeline.table, cols)]
       IN pipeline' =
            IF PreprocessChecksRows(pipeline.script) /\ NumRows(rows) = 0
            THEN Abort(cleaned)
            ELSE [cleaned EXCEPT !.pc = "engineer",
                                 !.feature_cols = cols, !.feature_names = cols]
    /\ UNCHANGED <<models_dir, trainer, service_vars>>

\* engineer_features / create_simple_features
engineer_features ==
    /\ Running("engineer")
    /\ LET e == EngineerFeatures(pipeline.script, pipeline.df_columns, pipeline.feature_cols)
       IN pipeline' = [pipeline EXCEPT !.pc = "encode", !.df_columns = e.columns,
                                       !.created = e.created,
                                       !.feature_names = e.feature_names]
    /\ UNCHANGED <<models_dir, trainer, service_vars>>

\* y = label_encoder.fit_transform(df['label'].values)
fit_label_encoder ==
    /\ Running("encode")
    /\ pipeline' = [pipeline EXCEPT !.pc = "split",
                                    !.classes = FitClasses(LabelsPresent(pipeline.rows))]
    /\ UNCHANGED <<models_dir, trainer, service_vars>>

\* the rows train_test_split works on
SplitRows(p) ==
    IF p.script = "milk_quality" THEN SyntheticSamples ELSE NumRows(p.rows)

\* n_test = ceil(test_size * n)
TestSize(n) == (n + TestDivisor - 1) \div TestDivisor

\* train_test_split raises ValueError on an empty train split and, with
\* stratify=y, on a class of one row and on a split smaller than the classes
SplitRaises(p) ==
    LET n == SplitRows(p) IN
    \/ n - TestSize(n) = 0
    \/ /\ p.script # "milk_quality"
       /\ \/ LeastPopulated(p.rows) < 2
          \/ n - TestSize(n) < Len(p.classes)
          \/ TestSize(n) < Len(p.classes)

\* X_train, X_test, y_train, y_test = train_test_split(...)
train_test_split ==
    /\ Running("split")
    /\ pipeline' =
         IF SplitRaises(pipeline) THEN Raise(pipeline, "ValueError")
         ELSE [pipeline EXCEPT !.pc = "scale",
                               !.split = [done |-> TRUE,
                                          n_train |-> SplitRows(pipeline)
                                                      - TestSize(SplitRows(pipeline)),
                                          n_test |-> TestSize(SplitRows(pipeline))]]
    /\ UNCHANGED <<models_dir, trainer, service_vars>>

\* a call of fit: the estimator and the data it is fitted on
Fit(estimator, data) == [estimator |-> estimator, on |-> data]

\* a faulty variant of ScalerFitData: the scaler is fitted on all the rows
ScalerFitDataAll(script) == "X"

\* the data scaler.fit_transform is called on
ScalerFitData(script) == "X_train"

\* X_train_scaled = scaler.fit_transform(X_train); X_test_scaled =
\* scaler.transform(X_test).  StandardScaler refuses a matrix without columns.
scale_features ==
    /\ Running("scale")
    /\ pipeline' =
         IF pipeline.feature_names = <<>> THEN Raise(pipeline, "ValueError")
         ELSE [pipeline EXCEPT !.pc = "train",
                               !.fitted = Append(@, Fit("scaler",
                                                        ScalerFitData(pipeline.script))),
                               !.transformed = Append(@, "X_test")]
    /\ UNCHANGED <<models_dir, trainer, service_vars>>

\* the estimators a script trains, in the order of its dict
Candidates(script) ==
    CASE script = "real_data" ->
           <<"Random Forest", "XGBoost", "LightGBM", "Gradient Boosting", "SVM">>
      [] script = "milk_quality" -> <<"RandomForest", "XGBoost", "LightGBM">>
      [] script = "improved" -> <<"Optimized Random Forest">>
      [] script = "simple" -> <<"RandomForest">>

\* the scripts that choose among candidates by their test accuracy
Selects(script) == script \in {"real_data", "milk_quality"}

\* if accuracy > self.best_accuracy / if test_score > best_score
Better(accuracy, best_accuracy) == accuracy > best_accuracy

\* The entry of results for one candidate: its test accuracy (percent), its
\* cross-validation mean in the two scripts that compute one, and ranking, the
\* order of the features by the model's feature_importances_, which an SVM
\* does not have.
FitResult(script, name, accuracy, cv_mean, ranking) ==
    [name |-> name, accuracy |-> accuracy,
     cv_mean |-> IF script \in {"real_data", "improved"} THEN cv_mean ELSE 0,
     ranking |-> IF name = "SVM" THEN "none" ELSE ranking]

\* One turn of the loop of train_models / train_freshness_classifier, or the
\* one model of the other scripts: fit on the scaled train split, score on the
\* test split and, in two scripts, by cross-validation.
\* real_data_ml_training.py reads column 1 of predict_proba, which a model of
\* one class does not have.
train_step(accuracy, cv_mean, ranking) ==
    /\ Running("train")
    /\ LET name == Candidates(pipeline.script)[Len(pipeline.results) + 1]
           p1 == [pipeline EXCEPT !.fitted = Append(@, Fit(name, "X_train_scaled"))]
           p2 == [p1 EXCEPT !.results = Append(@, FitResult(pipeline.script, name, accuracy,
                                                            cv_mean, ranking)),
                            !.pc = IF Len(pipeline.results) + 1
                                      = Len(Candidates(pipeline.script))
                                   THEN "evaluate" ELSE "train"]
       IN pipeline' =
            IF pipeline.script = "real_data" /\ Len(pipeline.classes) < 2
            THEN Raise(p1, "IndexError")
            ELSE IF ~Selects(pipeline.script) \/ Better(accuracy, pipeline.best_accuracy)
            THEN [p2 EXCEPT !.best_model = name, !.best_accuracy = accuracy]
            ELSE p2

\* the turn of the loop with the feature importances left open
train_candidate(accuracy, cv_mean) ==
    /\ train_step(accuracy, cv_mean, "open")
    /\ UNCHANGED <<models_dir, trainer, service_vars>>

\* a faulty variant of RandomState: the estimators are seeded from the clock
RandomStateFromClock(p) == p.started

\* random_state=42 / random_state=RANDOM_SEED: the seed every estimator and
\* every split of run p is constructed with
RandomState(p) == RandomSeed

\* What the result of a fit depends on: the estimator, its seed, and the
\* scaled train and test splits, which are a function of the script, the
\* dataset files and the seed of train_test_split.
FitKey(p, name) ==
    [estimator |-> name, random_state |-> RandomState(p), script |-> p.script,
     csv |-> p.csv, feature_names |-> p.feature_names, split |-> p.split]

\* the results the fit with key key has given so far
FitAnswers(key) == {m.result : m \in {x \in fit_memo : x.key = key}}

\* the turn of the loop, with the results of the fits recorded: a fit that
\* was done before with the same estimator, seed and data gives the result
\* it gave then
train_candidate_observed(accuracy, cv_mean, ranking) ==
    /\ train_step(accuracy, cv_mean, ranking)
    /\ LET name == Candidates(pipeline.script)[Len(pipeline.results) + 1]
           key == FitKey(pipeline, name)
           result == FitResult(pipeline.script, name, accuracy, cv_mean, ranking)
       IN /\ FitAnswers(key) \subseteq {result}
          /\ fit_memo' = fit_memo \cup {[key |-> key, result |-> result]}
    /\ UNCHANGED <<models_dir, trainer, bundle_vars, load_pc, response, predict_locals, log,
                   np_random, classifier_memo, answered, first_run>>

\* the script is started a second time on the same dataset files, after the
\* first run is over
run_again ==
    /\ pipeline.pc = "exit"
    /\ pipeline.started = 1
    /\ first_run' = [pipeline |-> pipeline, models_dir |-> models_dir]
    /\ pipeline' = [StartPipeline(pipeline.script, pipeline.csv) EXCEPT !.started = 2]
    /\ trainer' = NoTrainer
    /\ UNCHANGED <<models_dir, bundle_vars, load_pc, response, predict_locals, log,
                   np_random, classifier_memo, answered, fit_memo>>

\* the keys of the metadata save_models writes: real_data_ml_training.py puts
\* no classes in its metadata, improved_ml_training.py adds the model's
\* parameters, the seed and the out-of-bag score
SavedKeys(script) ==
    CASE script = "improved" -> MetadataKeys \cup {"model_params", "random_seed", "oob_score"}
      [] script = "real_data" -> MetadataKeys \ {"classes"}
      [] script = "simple" -> MetadataKeys

\* metadata['model_name']
SavedModelName(p) ==
    CASE p.script = "improved" -> "Optimized Random Forest"
      [] p.script = "real_data" -> p.best_model
      [] p.script = "simple" -> "RandomForest"

\* the bundle save_models writes; training_date is datetime.now(), the date
\* of the run
PipelineBundle(p) ==
    [classifier     |-> [run |-> 2, n_features |-> Len(p.feature_names),
                         n_classes |-> Len(p.classes)],
     scaler         |-> [run |-> 2, n_features |-> Len(p.feature_names)],
     label_encoder  |-> [run |-> 2, classes |-> p.classes],
     feature_names  |-> [run |-> 2, names |-> p.feature_names],
     model_metadata |-> [run |-> 2, keys |-> SavedKeys(p.script),
                         model_name |-> SavedModelName(p),
                         accuracy |-> p.best_accuracy,
                         feature_count |-> Len(p.feature_names),
                         training_date |-> p.started,
                         classes |-> IF "classes" \in SavedKeys(p.script) THEN p.classes
                                     ELSE <<>>,
                         feature_names |-> p.feature_names]]

\* evaluate_best_model / test_consistency / the report on the best model, up
\* to the call of save_models.  With no model selected, evaluate_best_model
\* reads self.best_model_name, which was never set, and
\* train_freshness_classifier calls best_model.predict on None.
evaluate_best_model ==
    /\ Running("evaluate")
    /\ IF Selects(pipeline.script) /\ pipeline.best_model = ""
       THEN /\ pipeline' = Raise(pipeline, "AttributeError")
            /\ UNCHANGED trainer
       ELSE /\ pipeline' = [pipeline EXCEPT !.pc = "save"]
            /\ trainer' = IF pipeline.script = "milk_quality" THEN trainer
                          ELSE [status |-> "ready", pc |-> 0,
                                bundle |-> PipelineBundle(pipeline)]
    /\ UNCHANGED <<models_dir, service_vars>>

\* save_models is through: the script prints its summary and returns True
finish_pipeline ==
    /\ Running("save")
    /\ IF pipeline.script = "milk_quality"
       THEN models_dir.scaler = LegacyScaler
       ELSE trainer.status = "done"
    /\ pipeline' = [pipeline EXCEPT !.pc = "exit", !.outcome = "done"]
    /\ UNCHANGED <<models_dir, trainer, service_vars>>

\* ---------------------------------------------------------- specifications
\* feature counts of the bundles of the registry
TrainDims == {MaxDim, DefaultExpectedFeatures}

\* class lists of the bundles of the registry
TrainClassLists ==
    {FitClasses({"Spoiled", "fresh"}), FitClasses({"fresh", "spoiled"}), FitClasses({"fresh"})}

\* a directory that holds the files S of bundle b
Directory(b, S) == [a \in Range(Artifacts) |-> IF a \in S THEN b[a] ELSE NoBundle[a]]

\* requests the registry specifications send: every length, finite values
PlainInputs == {[i \in 1..n |-> Fin(-2)] : n \in 0..MaxLen}

\* and the classifier answers they draw: every class, with all the probability
SureOutputs(model) ==
    {out \in OutputsOf(model) : \A i \in DOMAIN out.probabilities :
        out.probabilities[i] = IF i = out.prediction + 1 THEN PScale ELSE 0}

ServiceInit ==
    /\ classifier_model = NoBundle.classifier
    /\ feature_scaler = NoBundle.scaler
    /\ label_encoder = NoBundle.label_encoder
    /\ feature_names_list = NoBundle.feature_names
    /\ model_metadata = NoBundle.model_metadata
    /\ load_pc = 0
    /\ response = NoResponse
    /\ predict_locals = NoCall
    /\ log = <<>>
    /\ np_random = UnseededGenerator
    /\ classifier_memo = {}
    /\ answered = {}
    /\ fit_memo = {}
    /\ first_run = NoRun

\* bundle b with a metadata record that has the keys keys
WithMetadataKeys(b, keys) ==
    [b EXCEPT !.model_metadata.keys = keys,
              !.model_metadata.classes = IF "classes" \in keys THEN @ ELSE <<>>]

\* The service process on its own: the directory holds any subset of the
\* files of a trained bundle, its metadata with or without the classes.
Init ==
    /\ \E E \in TrainDims, cl \in ClassLists, S \in SUBSET Range(Artifacts),
          keys \in {MetadataKeys, MetadataKeys \ {"classes"}} :
         models_dir = Directory(WithMetadataKeys(TrainedBundle(1, E, cl), keys), S)
    /\ trainer = NoTrainer
    /\ pipeline = NoPipeline
    /\ ServiceInit

Next ==
    \/ load_models
    \/ root
    \/ health_check
    \/ get_model_info
    \/ Serving /\ Idle /\
         \E input \in PlainInputs, out \in SureOutputs(classifier_model) : predict(input, out)
    \/ respond

Spec == Init /\ [][Next]_vars

\* The registry: a training script saves a new bundle (or the legacy script
\* its scaler) while the service starts and serves.
RegistryInit ==
    /\ \E E \in TrainDims, cl \in TrainClassLists :
         models_dir \in {Directory(NoBundle, {}),
                         Directory(TrainedBundle(1, E, cl), Range(Artifacts))}
    /\ \E E \in TrainDims, cl \in TrainClassLists :
         trainer = [status |-> "ready", pc |-> 0, bundle |-> TrainedBundle(2, E, cl)]
    /\ pipeline = NoPipeline
    /\ ServiceInit

RegistryNext ==
    \/ save_models
    \/ save_models_raises
    \/ legacy_save_models
    \/ load_models
    \/ root
    \/ Serving /\ Idle /\
         \E input \in PlainInputs, out \in SureOutputs(classifier_model) : predict(input, out)
    \/ respond

SpecRegistry == RegistryInit /\ [][RegistryNext]_vars

\* The handler on a loaded bundle: every request and every classifier answer.
PredictInit ==
    /\ \E E \in 1..MaxDim, cl \in ClassLists :
         /\ models_dir = Directory(TrainedBundle(1, E, cl), Range(Artifacts))
         /\ classifier_model = models_dir.classifier
         /\ feature_scaler = models_dir.scaler
         /\ label_encoder = models_dir.label_encoder
         /\ feature_names_list = models_dir.feature_names
         /\ model_metadata = models_dir.model_metadata
    /\ trainer = NoTrainer
    /\ pipeline = NoPipeline
    /\ load_pc = Len(Artifacts)
    /\ response = NoResponse
    /\ predict_locals = NoCall
    /\ log = <<>>
    /\ np_random = UnseededGenerator
    /\ classifier_memo = {}
    /\ answered = {}
    /\ fit_memo = {}
    /\ first_run = NoRun

PredictNext ==
    \/ Serving /\ Idle /\
         \E input \in FeatureLists, out \in OutputsOf(classifier_model) : predict(input, out)
    \/ respond

SpecPredict == PredictInit /\ [][PredictNext]_vars

\* The training scripts.  A run starts on the dataset files and on an empty
\* models directory; the service is not running.
\* the header of the sensor datasets, without columns named like derived features
SensorColumns == Range(CsvColumns) \ {"peak_intensity", "raw_sum"}

\* The numbers of rows of one label: none, a single row, and tens of rows.
\* With tens of rows of a label the five folds of cross_val_score and the
\* leaves of the forests have the rows they need.
RowLevels == {0, 1} \cup {10 * k : k \in 1..MaxRows}

\* a dataset with every sensor column and the most rows of each label
FullDataset ==
    [exists |-> TRUE, columns |-> ColumnList(SensorColumns),
     rows |-> [fresh |-> 10 * MaxRows, spoiled |-> 10 * MaxRows, missing |-> 0],
     table |-> <<>>]

\* test accuracies (percent) and cross-validation means the candidates reach
AccLevels == {0, 50, 100}
CvLevels == {40, 60}

TrainingInit(script, csv) ==
    /\ pipeline = StartPipeline(script, csv)
    /\ models_dir = Directory(NoBundle, {})
    /\ trainer = NoTrainer
    /\ ServiceInit

\* milk_quality_ml_training.py at its save_models
legacy_pipeline_save ==
    /\ Running("save")
    /\ pipeline.script = "milk_quality"
    /\ legacy_save_models

\* Model selection: every score of every candidate, on a full dataset.
SelectionInit ==
    \E script \in Scripts :
        TrainingInit(script, IF script = "milk_quality" THEN NoDataset ELSE FullDataset)

SelectionNext ==
    \/ load_datasets
    \/ preprocess_data
    \/ engineer_features
    \/ fit_label_encoder
    \/ train_test_split
    \/ scale_features
    \/ Running("train") /\
         \E accuracy \in AccLevels, cv_mean \in CvLevels : train_candidate(accuracy, cv_mean)
    \/ evaluate_best_model
    \/ save_models
    \/ legacy_pipeline_save
    \/ finish_pipeline

SpecSelection == SelectionInit /\ [][SelectionNext]_vars

\* Feature engineering: every header, the spectral channels none, one or all.
ColumnSets ==
    {S \in SUBSET Range(CsvColumns) :
        /\ "label" \in S
        /\ S \cap RawColumns \in {{}, {"raw_ch0"}, RawColumns}}

FeaturesInit ==
    \/ TrainingInit("milk_quality", NoDataset)
    \/ \E script \in Scripts \ {"milk_quality"}, S \in ColumnSets :
         TrainingInit(script, [FullDataset EXCEPT !.columns = ColumnList(S)])

FeaturesNext ==
    \/ load_datasets
    \/ preprocess_data
    \/ engineer_features
    \/ fit_label_encoder
    \/ train_test_split
    \/ scale_features
    \/ Running("train") /\ train_candidate(100, 60)
    \/ evaluate_best_model
    \/ save_models
    \/ legacy_pipeline_save
    \/ finish_pipeline

SpecFeatures == FeaturesInit /\ [][FeaturesNext]_vars

\* Data sufficiency: every number of rows of each label, files present or not.
RowCounts == [fresh : RowLevels, spoiled : RowLevels, missing : 0..1]

DataInit ==
    \/ \E script \in Scripts : TrainingInit(script, NoDataset)
    \/ \E script \in Scripts \ {"milk_quality"}, rows \in RowCounts,
          S \in {SensorColumns, {"label"}} :
         TrainingInit(script, [exists |-> TRUE, columns |-> ColumnList(S), rows |-> rows,
                               table |-> <<>>])

DataNext ==
    \/ load_datasets
    \/ preprocess_data
    \/ engineer_features
    \/ fit_label_encoder
    \/ train_test_split
    \/ scale_features
    \/ Running("train") /\ \E accuracy \in {0, 100} : train_candidate(accuracy, 60)
    \/ evaluate_best_model
    \/ save_models
    \/ legacy_pipeline_save
    \/ finish_pipeline

SpecData == DataInit /\ [][DataNext]_vars

\* Cleaning: small datasets with every value of every cell.  A dataset has
\* the identifier, the label and one numeric feature column; its rows are
\* counted from the rows of the table.
CleanColumns == {"VOC_raw", "VOC_voltage", "raw_ch0"}

\* the values of a cell of a dataset file: empty, inf, -inf, or a number
CellValues == {NaN, PosInf, NegInf, Fin(2), Fin(4)}

TableRows(c) == [label : {"fresh", "spoiled", MissingLabel}, cells : [{c} -> CellValues]]

Tables(c) == UNION {[1..n -> TableRows(c)] : n \in 1..MaxTableRows}

\* the rows of a table counted by label
CountRows(table) ==
    [fresh |-> Len(SelectSeq(table, LAMBDA r : r.label = "fresh")),
     spoiled |-> Len(SelectSeq(table, LAMBDA r : r.label = "spoiled")),
     missing |-> Len(SelectSeq(table, LAMBDA r : r.label = MissingLabel))]

CleaningInit ==
    \E script \in Scripts \ {"milk_quality"}, c \in CleanColumns :
        \E table \in Tables(c) :
            TrainingInit(script, [exists |-> TRUE,
                                  columns |-> ColumnList({"timestamp_ms", c, "label"}),
                                  rows |-> CountRows(table), table |-> table])

CleaningNext ==
    \/ load_datasets
    \/ preprocess_data

SpecCleaning == CleaningInit /\ [][CleaningNext]_vars

\* Two runs of a script on the same dataset files, the results of the fits
\* recorded.
ImportanceOrders == {"first_column_first", "last_column_first"}

RepeatInit ==
    \/ TrainingInit("milk_quality", NoDataset)
    \/ \E script \in Scripts \ {"milk_quality"} :
         \E csv \in {FullDataset, [FullDataset EXCEPT !.rows.spoiled = 0]} :
            TrainingInit(script, csv)

RepeatNext ==
    \/ load_datasets
    \/ preprocess_data
    \/ engineer_features
    \/ fit_label_encoder
    \/ train_test_split
    \/ scale_features
    \/ \E accuracy \in AccLevels, ranking \in ImportanceOrders :
         train_candidate_observed(accuracy, 60, ranking)
    \/ evaluate_best_model
    \/ save_models
    \/ legacy_pipeline_save
    \/ finish_pipeline
    \/ run_again

SpecRepeat == RepeatInit /\ [][RepeatNext]_vars

\* Requests one after the other on one loaded bundle, the classifier's answers
\* and the responses recorded.
IndependentInputs == {<<>>, <<NaN>>, <<Fin(-2)>>, <<Fin(-2), NaN>>}

IndependentInit ==
    /\ PredictInit
    /\ label_encoder.classes \in TrainClassLists

IndependentNext ==
    \/ Serving /\ Idle /\
         \E input \in IndependentInputs, out \in SureOutputs(classifier_model) :
             predict_observed(input, out)
    \/ respond

SpecIndependent == IndependentInit /\ [][IndependentNext]_vars

\* ------------------------------------------------------------------ claims
\* the last predict call went past the bundle check
Aligned == predict_locals.stage \notin {"none", "models_check"}

\* the last predict call returned an MLOutput
Returned == predict_locals.stage = "return"

\* all five globals hold an object
FullBundle ==
    /\ ModelsLoaded
    /\ Truthy(feature_names_list)
    /\ Truthy(model_metadata)

\* C1: with a loaded non-empty feature-name list of length E and an input of
\* length L, the vector predict hands to sanitisation has length E, starts with
\* the first min(L, E) input values in their order, holds 0.0 from position L on,
\* and is the input itself when L = E.
C1_AlignedToExpected ==
    (Aligned /\ TruthyList(feature_names_list)) =>
        LET E == Len(feature_names_list.names)
            L == Len(predict_locals.input)
            v == predict_locals.padded_features
        IN /\ Len(v) = E
           /\ \A i \in 1..Min(L, E) : v[i] = predict_locals.input[i]
           /\ \A i \in (L + 1)..E : v[i] = Fin(0)
           /\ (L = E => v = predict_locals.input)

\* a non-empty input shorter than the bundle's dimension was padded and answered
C1_Witness ==
    /\ Returned
    /\ Len(predict_locals.input) > 0
    /\ Len(predict_locals.input) < Len(feature_names_list.names)
    /\ predict_locals.input[1] # Fin(0)

\* C2: predict returns a prediction result only if all five artifacts were
\* loaded.
C2_ResultOnlyFromFullBundle ==
    response.kind = "MLOutput" => FullBundle

\* C3: when the classifier, the scaler or the label encoder is not loaded, a
\* predict call ends with HTTP 503.
C3_Unavailable503 ==
    (predict_locals.stage # "none" /\ ~ModelsLoaded) => response.status_code = 503

\* C4: when the predicted class is the encoder class named "fresh", with p its
\* probability, freshness is 0.7 + 0.3 p and shelf life 48 + 24 p, wherever
\* "fresh" stands in the class list.
C4_FreshScore ==
    (/\ Returned
     /\ "fresh" \in Range(label_encoder.classes)
     /\ label_encoder.classes[predict_locals.output.prediction + 1] = "fresh") =>
        LET p == predict_locals.output.probabilities[predict_locals.output.prediction + 1]
        IN /\ response.freshness_prediction = 7 * PScale + 3 * p
           /\ response.shelf_life_hours = 48 * PScale + 24 * p

\* "fresh" is the third class, it is predicted with a probability strictly
\* between 0 and 1, and the call returned
C4_Witness ==
    /\ Returned
    /\ Len(label_encoder.classes) >= 3
    /\ label_encoder.classes[3] = "fresh"
    /\ predict_locals.output.prediction = 2
    /\ predict_locals.output.probabilities[3] \in 1..(PScale - 1)

\* C5: when the predicted class is not the fresh class and the class list has
\* a class named "spoiled", with q the probability at that class's index,
\* freshness is 0.3 q and shelf life 12 q.
C5_SpoiledScore ==
    (/\ Returned
     /\ response.prediction_label = "spoiled"
     /\ "spoiled" \in Range(label_encoder.classes)) =>
        LET q == predict_locals.output.probabilities[
                     IndexOf(label_encoder.classes, "spoiled") + 1]
        IN /\ response.freshness_prediction = 3 * q
           /\ response.shelf_life_hours = 12 * q

\* C6: a returned result has freshness and confidence in [0, 1], confidence
\* the largest probability, shelf life in [48, 72] under the label "fresh" and
\* in [0, 12] under the label "spoiled".
C6_ScoreRanges ==
    Returned =>
        LET q == predict_locals.output.probabilities IN
        /\ response.freshness_prediction \in 0..(10 * PScale)
        /\ response.confidence \in 0..PScale
        /\ response.confidence \in Range(q)
        /\ \A i \in DOMAIN q : q[i] <= response.confidence
        /\ response.prediction_label \in {"fresh", "spoiled"}
        /\ response.prediction_label = "fresh" =>
               response.shelf_life_hours \in (48 * PScale)..(72 * PScale)
        /\ response.prediction_label = "spoiled" =>
               response.shelf_life_hours \in 0..(12 * PScale)

\* a spoiled answer at the top of its range: shelf life 12 h, freshness 0.3
C6_Witness ==
    /\ Returned
    /\ response.prediction_label = "spoiled"
    /\ response.shelf_life_hours = 12 * PScale
    /\ response.freshness_prediction = 3 * PScale

\* C9: after alignment every NaN is 0.0, every +Infinity 1e6, every -Infinity
\* -1e6 and every finite entry unchanged in the vector given to the scaler, and
\* with a complete bundle (the five artifacts of one training run) the call
\* returns a prediction result.
C9_Sanitised ==
    Aligned =>
        LET v == predict_locals.padded_features
            w == predict_locals.features
        IN /\ DOMAIN w = DOMAIN v
           /\ \A i \in DOMAIN v :
                /\ v[i].k = "nan" => w[i] = Fin(0)
                /\ v[i].k = "inf" => w[i] = Fin(1000000)
                /\ v[i].k = "-inf" => w[i] = Fin(-1000000)
                /\ v[i].k = "fin" => w[i] = v[i]
           /\ (/\ FullBundle
               /\ Len(feature_names_list.names) = feature_scaler.n_features
               /\ Len(feature_names_list.names) = classifier_model.n_features
               /\ Len(label_encoder.classes) = classifier_model.n_classes)
              => /\ Returned
                 /\ response.kind = "MLOutput"

\* a request with a NaN and an infinity in the aligned vector was answered
C9_Witness ==
    /\ response.kind = "MLOutput"
    /\ \E i, j \in DOMAIN predict_locals.padded_features :
         /\ predict_locals.padded_features[i].k = "nan"
         /\ predict_locals.padded_features[j].k \in {"inf", "-inf"}

\* the training runs the loaded objects come from
LoadedRuns ==
    {classifier_model.run, feature_scaler.run, label_encoder.run,
     feature_names_list.run, model_metadata.run}

\* C7: save_models is atomic over the five files: whatever the interleaving of
\* its writes with the reads of load_models, and also when it fails part-way,
\* the service never holds artifacts of the older bundle (run 1) together
\* with artifacts of the newer one (run 2).
C7_NoMixedBundle ==
    Serving => ~({1, 2} \subseteq LoadedRuns)

\* len(feature_names) == scaler dimension == model input dimension
DimensionsAgree ==
    /\ Len(feature_names_list.names) = feature_scaler.n_features
    /\ Len(feature_names_list.names) = classifier_model.n_features

\* C8: a bundle whose five artifacts are present but whose dimensions disagree
\* is reported as incomplete: root does not show it as loaded.
C8_InconsistentBundleNotExposed ==
    (response.kind = "root" /\ FullBundle /\ ~DimensionsAgree) =>
        ~(/\ response.models_loaded.classifier
          /\ response.models_loaded.scaler
          /\ response.models_loaded.label_encoder)

\* C10: load_models runs once, before any handler: no handler answers before
\* it has returned, and once it has returned it never runs again and no step
\* (predict, health, root, model-info) changes one of the five bundle globals.
C10_BundleReadOnlyAfterLoad ==
    [][/\ Serving => (load_pc' = load_pc /\ bundle_vars' = bundle_vars)
       /\ ~Serving => response' = response]_vars

\* predict has answered from a bundle loaded at startup, and model-info too
C10_Witness ==
    /\ Serving
    /\ FullBundle
    /\ response.kind \in {"MLOutput", "model_info"}

\* C11: on a fixed loaded bundle the response to a predict request is decided
\* by the request's features alone: it equals the response first given to the
\* same features, whatever requests were served in between and whatever they
\* left in the process-wide random generator.
C11_RequestsIndependent ==
    \A a \in answered :
        (predict_locals.stage # "none" /\ a.input = predict_locals.input) =>
            a.response = response

\* a request is answered a second time, with a result, after other requests
\* were served and after the estimator drew from the generator
C11_Witness ==
    /\ response.kind = "MLOutput"
    /\ np_random.drawn
    /\ Cardinality(answered) >= 3
    /\ \E a \in answered : a.input = predict_locals.input /\ a.again

\* the warnings among the records of the call in progress
Warnings == SelectSeq(log, LAMBDA r : r.level = "WARNING")

\* C12: a predict request whose feature list has another length L than the
\* expected dimension E logs one warning, for padding when L < E and for
\* truncation when L > E, and is still answered with a result; a request with
\* L = E logs no warning.
C12_MismatchLoggedNotFatal ==
    Aligned =>
        LET L == Len(predict_locals.input)
            E == predict_locals.expected_features
        IN /\ L < E => Warnings = <<LogRecord("WARNING", "Padded features")>>
           /\ L > E => Warnings = <<LogRecord("WARNING", "Truncated features")>>
           /\ L = E => Warnings = <<>>
           /\ L # E => (Returned /\ response.kind = "MLOutput")

\* a request longer than the bundle's dimension was truncated, reported and
\* answered
C12_Witness ==
    /\ response.kind = "MLOutput"
    /\ Len(predict_locals.input) > predict_locals.expected_features
    /\ Len(log) = 1

\* C13: whenever sanitisation changes an entry of the aligned vector (a NaN or
\* an infinity of the input), the call logs a record for the invalid numeric
\* input: a record other than the length warnings and the error record.
C13_InvalidNumericLogged ==
    (Aligned /\ predict_locals.features # predict_locals.padded_features) =>
        \E i \in DOMAIN log :
            log[i] \notin Range(AlignWarnings(predict_locals.input,
                                              predict_locals.expected_features))
                          \cup Range(ExceptLog(predict_locals.raised))

\* the last predict call raised after the bundle check
RaisedAfterCheck == Aligned /\ predict_locals.raised # ""

\* C14: a predict call in which a step after the bundle check raises logs the
\* error and answers HTTP 500 without a prediction field; the response to a
\* predict call is a complete MLOutput or an error, nothing in between.
C14_FailureIs500 ==
    /\ RaisedAfterCheck =>
          /\ response = [kind |-> "HTTPException", status_code |-> 500]
          /\ log # <<>>
          /\ log[Len(log)].level = "ERROR"
    /\ predict_locals.stage # "none" =>
          \/ /\ response.kind = "MLOutput"
             /\ Returned
             /\ DOMAIN response = {"kind", "status_code"} \cup DOMAIN NoResult
          \/ /\ response.kind = "HTTPException"
             /\ DOMAIN response = {"kind", "status_code"}

\* the scaler refused the vector
C14_Witness ==
    /\ predict_locals.stage = "scale"
    /\ predict_locals.raised = "ValueError"
    /\ response.status_code = 500

\* the classifier refused the vector, the label encoder the class index
C14_WitnessClassify == predict_locals.stage = "classify" /\ response.status_code = 500
C14_WitnessDecode == predict_locals.stage = "decode" /\ response.status_code = 500

\* the loop over the candidates has run to its end
Trained ==
    /\ pipeline.script \in Scripts
    /\ Len(pipeline.results) = Len(Candidates(pipeline.script))

\* the best test accuracy among the candidates
MaxAccuracy == MaxSeq([i \in DOMAIN pipeline.results |-> pipeline.results[i].accuracy])

\* the candidates that reach it
TopCandidates == {r \in Range(pipeline.results) : r.accuracy = MaxAccuracy}

\* C15: after the loop of train_models / train_freshness_classifier, whatever
\* the test accuracies of the candidates (all of them 0 included), a
\* candidate is selected, its test accuracy is the largest of all, and the
\* recorded best accuracy is that largest accuracy.
C15_BestCandidateSelected ==
    (Trained /\ Selects(pipeline.script)) =>
        /\ pipeline.best_model # ""
        /\ \E r \in TopCandidates : r.name = pipeline.best_model
        /\ pipeline.best_accuracy = MaxAccuracy

\* C16: when several candidates reach the largest test accuracy, the selected
\* one has the largest cross-validation mean among them.
C16_TieBrokenByCvMean ==
    (Trained /\ pipeline.script = "real_data" /\ pipeline.best_model # "") =>
        \E r \in TopCandidates :
            /\ r.name = pipeline.best_model
            /\ \A q \in TopCandidates : q.cv_mean <= r.cv_mean

\* the dataset of the run has no row, or rows of fewer than two labels, once
\* the rows without a label are dropped
Insufficient ==
    /\ pipeline.script \in Scripts \ {"milk_quality"}
    /\ pipeline.csv.exists
    /\ \/ NumRows(LabelledRows(pipeline.csv.rows)) = 0
       \/ Cardinality(LabelsPresent(pipeline.csv.rows)) < 2

\* C17: a run on a cleaned dataset without rows or with fewer than two labels
\* ends with a reported failure before it attempts a split or a fit, and it
\* writes no artifact.
C17_NoTrainingOnInsufficientData ==
    Insufficient =>
        /\ pipeline.pc \notin {"scale", "train", "evaluate", "save"}
        /\ pipeline.outcome \in {"", "aborted"}
        /\ ~pipeline.split.done
        /\ pipeline.fitted = <<>>
        /\ models_dir = Directory(NoBundle, {})

\* the calls of fit on the scaler, in order
ScalerFits == SelectSeq(pipeline.fitted, LAMBDA f : f.estimator = "scaler")

\* C18: in a training run the scaler is fitted at most once, on the train
\* split and after the split is made; the test split is only transformed;
\* every model is fitted after that, on the scaled train split; and when the
\* scaler file is written the scaler is the one fitted once on the train split.
C18_ScalerFittedOnTrainOnly ==
    /\ Len(ScalerFits) <= 1
    /\ \A i \in DOMAIN pipeline.fitted :
          /\ pipeline.split.done
          /\ pipeline.fitted[i].on # "X_test"
          /\ pipeline.fitted[i].estimator = "scaler" =>
                 (i = 1 /\ pipeline.fitted[i].on = "X_train")
          /\ pipeline.fitted[i].estimator # "scaler" =>
                 (i > 1 /\ pipeline.fitted[i].on = "X_train_scaled")
    /\ Range(pipeline.transformed) \subseteq {"X_test"}
    /\ (pipeline.script \in Scripts /\ models_dir.scaler.run # 0) =>
          ScalerFits = <<Fit("scaler", "X_train")>>

\* real_data_ml_training.py fitted its scaler and its five candidates and
\* wrote its files
C18_Witness ==
    /\ pipeline.script = "real_data"
    /\ pipeline.outcome = "done"
    /\ Len(pipeline.fitted) = 6
    /\ models_dir.scaler.run = 2

\* feature engineering has returned
Engineered ==
    /\ pipeline.script \in Scripts \ {"milk_quality"}
    /\ pipeline.pc \notin {"none", "load", "preprocess", "engineer"}
    /\ pipeline.outcome # "aborted"

\* preprocess_data has returned its feature columns
Preprocessed ==
    /\ pipeline.script \in Scripts \ {"milk_quality"}
    /\ pipeline.pc \notin {"none", "load", "preprocess"}
    /\ pipeline.outcome # "aborted"

\* C19: in the feature-name list of engineer_features / create_simple_features
\* the names after the base columns are the derived columns the call
\* computed, in the order of new_features, also when the dataset came with a
\* column named like a derived feature.
C19_DerivedNamesAreCreated ==
    Engineered =>
        SubSeq(pipeline.feature_names, Len(pipeline.feature_cols) + 1,
               Len(pipeline.feature_names))
          = SelectSeq(NewFeatures(pipeline.script), LAMBDA f : f \in pipeline.created)

\* the identifier, the label and the microbial count
NonFeatureColumns == {"timestamp_ms", "label", "CFU_value"}

\* C20: neither the feature columns of preprocess_data nor the final
\* feature-name list holds the label, timestamp_ms or CFU_value.
C20_NonFeaturesExcluded ==
    /\ Preprocessed => Range(pipeline.feature_cols) \cap NonFeatureColumns = {}
    /\ Engineered => Range(pipeline.feature_names) \cap NonFeatureColumns = {}

\* the rows of the dataset files that have a label, as they were read
KeptInput == DropMissingLabels(pipeline.csv.table)

\* preprocess_data has returned a frame with the rows that have a label
Cleaned ==
    /\ pipeline.pc \in {"engineer", "exit"}
    /\ pipeline.outcome # "raised"
    /\ Len(pipeline.table) = Len(KeptInput)

\* the feature columns whose cells are enumerated
TrackedFeatures ==
    {c \in CleanColumns : c \in Range(Excluding(pipeline.csv.columns,
                                                ExcludeCols(pipeline.script)))
                          /\ \A i \in DOMAIN pipeline.csv.table :
                                c \in DOMAIN pipeline.csv.table[i].cells}

\* the spectral-channel columns: raw_ch*, reflect_ch*, absorb_ch*
SpectralColumns == RawColumns \cup ReflectColumns \cup AbsorbColumns

\* the median of the numbers of column c of the dataset, 0 when it has none
MedianOrZero(c) ==
    LET m == Median([i \in DOMAIN pipeline.csv.table |->
                        InfToNaN(pipeline.csv.table[i].cells[c])])
    IN IF m = NaN THEN Fin(0) ELSE m

\* C21: in every training script, after preprocess_data a cell that was
\* missing in a spectral-channel column holds 0, and a cell that was missing
\* in any other numeric feature column holds the median of that column, or 0
\* when the column has no number at all.
C21_MissingValuePolicy ==
    Cleaned =>
        \A c \in TrackedFeatures : \A i \in DOMAIN KeptInput :
            KeptInput[i].cells[c] = NaN =>
                pipeline.table[i].cells[c] =
                    IF c \in SpectralColumns THEN Fin(0) ELSE MedianOrZero(c)

\* C22: in every training script, after preprocess_data every row that has a
\* label is kept, a cell that was +Infinity in a feature column holds 1e6 and
\* a cell that was -Infinity holds -1e6.
C22_InfinityBecomesSentinel ==
    pipeline.pc \in {"engineer", "exit"} /\ pipeline.outcome # "raised" =>
        /\ Len(pipeline.table) = Len(KeptInput)
        /\ \A c \in TrackedFeatures : \A i \in DOMAIN KeptInput :
              /\ KeptInput[i].cells[c] = PosInf =>
                    pipeline.table[i].cells[c] = Fin(Sentinel)
              /\ KeptInput[i].cells[c] = NegInf =>
                    pipeline.table[i].cells[c] = Fin(-Sentinel)

\* C23: in every training script, the frame handed to preprocess_data holds
\* after the call the values it held before it (the values read from the
\* dataset files).
C23_ArgumentUntouched ==
    pipeline.pc \in {"engineer", "exit"} /\ pipeline.outcome # "raised" =>
        pipeline.passed = pipeline.csv.table

\* a training script has written its five files and returned
BundleSaved ==
    /\ pipeline.script \in Scripts \ {"milk_quality"}
    /\ pipeline.outcome = "done"

\* C24: the metadata record of every five-file bundle a save_models has
\* written has the keys model_name, accuracy, feature_count, training_date,
\* classes and feature_names; its feature_count is the length of the saved
\* feature-name list, its feature_names is that list and its classes is the
\* class list of the saved label encoder.
C24_MetadataComplete ==
    BundleSaved =>
        LET metadata == models_dir.model_metadata
        IN /\ MetadataKeys \subseteq metadata.keys
           /\ metadata.feature_count = Len(models_dir.feature_names.names)
           /\ metadata.feature_names = models_dir.feature_names.names
           /\ metadata.classes = models_dir.label_encoder.classes

\* the global of the service that holds artifact a
Global(a) ==
    CASE a = "classifier" -> classifier_model
      [] a = "scaler" -> feature_scaler
      [] a = "label_encoder" -> label_encoder
      [] a = "feature_names" -> feature_names_list
      [] a = "model_metadata" -> model_metadata

\* the health response says something about artifact a: an entry of models,
\* or, for the metadata, the accuracy or its 'N/A'
HealthReports(a) == a = "model_metadata" \/ a \in DOMAIN response.models

\* the health response shows artifact a as loaded
HealthShowsLoaded(a) ==
    IF a = "model_metadata" THEN response.accuracy.text = ""
    ELSE response.models[a] # "None"

\* C25: health answers 200 whatever is loaded, its response shows each of
\* the five artifacts as loaded exactly when load_models loaded it, and its
\* accuracy is the metadata's accuracy, or 'N/A' without metadata.
C25_HealthTrueToLoad ==
    response.kind = "health" =>
        /\ response.status_code = 200
        /\ \A a \in Range(Artifacts) :
              /\ HealthReports(a)
              /\ HealthShowsLoaded(a) <=> Global(a).run # 0
        /\ response.accuracy =
              IF model_metadata.run # 0
              THEN [text |-> "", value |-> model_metadata.accuracy]
              ELSE [text |-> "N/A", value |-> 0]

\* C26: model_info answers 404 exactly when no metadata is loaded, whatever
\* else is loaded; with metadata its response carries the metadata's
\* model_name, accuracy, feature_count, training_date and classes, and the
\* first 10 (or fewer) names of the loaded feature-name list in order, the
\* empty list when no feature-name list is loaded.
C26_ModelInfo ==
    /\ response.kind = "HTTPException" /\ response.status_code = 404 =>
          model_metadata.run = 0
    /\ response.kind = "model_info" =>
          /\ model_metadata.run # 0
          /\ response.status_code = 200
          /\ response.model_name = model_metadata.model_name
          /\ response.accuracy = [text |-> "", value |-> model_metadata.accuracy]
          /\ response.feature_count = model_metadata.feature_count
          /\ response.training_date = [text |-> "", value |-> model_metadata.training_date]
          /\ response.classes = model_metadata.classes
          /\ Len(response.feature_names) = Min(TopFeatures, Len(feature_names_list.names))
          /\ \A i \in DOMAIN response.feature_names :
                response.feature_names[i] = feature_names_list.names[i]

\* model_info has answered from a feature-name list longer than 10 and from
\* metadata, with the scaler missing
C26_Witness ==
    /\ response.kind = "model_info"
    /\ Len(feature_names_list.names) > TopFeatures
    /\ Len(response.feature_names) = TopFeatures
    /\ feature_scaler.run = 0

\* model_info has answered 404 with a feature-name list loaded
C26_WitnessNotFound ==
    /\ response.kind = "HTTPException" /\ response.status_code = 404
    /\ feature_names_list.run # 0

\* the second run of the script is over
SecondRunOver == pipeline.started = 2 /\ pipeline.pc = "exit"

\* the files of a directory, the training date of the metadata set aside
Undated(dir) == [dir EXCEPT !.model_metadata.training_date = 0]

\* C27: when a training script is run twice on the same dataset files, the
\* second run ends as the first did: the same candidate selected, the same
\* accuracy, the same results of every candidate with its feature-importance
\* ranking, the same feature names, classes and outcome, and the same files
\* written but for the training date in the metadata.
C27_TrainingDeterministic ==
    SecondRunOver =>
        /\ pipeline.best_model = first_run.pipeline.best_model
        /\ pipeline.best_accuracy = first_run.pipeline.best_accuracy
        /\ pipeline.results = first_run.pipeline.results
        /\ [pipeline EXCEPT !.started = 1] = first_run.pipeline
        /\ Undated(models_dir) = Undated(first_run.models_dir)

\* two runs that each trained several candidates, selected one and wrote
\* the bundle are over
C27_Witness ==
    /\ SecondRunOver
    /\ pipeline.outcome = "done"
    /\ first_run.pipeline.outcome = "done"
    /\ Len(pipeline.results) > 1
    /\ pipeline.best_model # ""
    /\ models_dir.model_metadata.training_date # first_run.models_dir.model_metadata.training_date

\* the last predict call computed the two class indices
Indexed == predict_locals.stage \in {"score", "return"}

\* C28: whenever predict computes the indices of the fresh and of the
\* spoiled class on an encoder of two or more classes, the two indices
\* differ.
C28_ClassIndicesDiffer ==
    Indexed /\ Len(label_encoder.classes) >= 2 =>
        predict_locals.fresh_class_idx # predict_locals.spoiled_class_idx

\* the encoder has two classes, the words fresh and spoiled in some
\* capitalisation
FreshAndSpoiled ==
    /\ Len(label_encoder.classes) = 2
    /\ {Lower(label_encoder.classes[i]) : i \in 1..2} = {"fresh", "spoiled"}

\* C29: on an encoder whose two classes are the words fresh and spoiled, the
\* prediction_label predict returns is "fresh" or "spoiled" and is the
\* lower-cased label inverse_transform gives for the predicted class index.
C29_LabelAgreesWithDecoded ==
    Returned /\ FreshAndSpoiled =>
        /\ predict_locals.result.prediction_label \in {"fresh", "spoiled"}
        /\ predict_locals.result.prediction_label =
              Lower(InverseTransform(label_encoder.classes, predict_locals.output.prediction))

\* C30: the feature_importance of every response predict returns has at
\* most 10 entries, its keys are among the first 10 loaded feature names, and
\* every value is a finite number between 0 and 1, also for inputs with NaN
\* or infinite values.
C30_ImportanceFinite ==
    Returned =>
        LET importance == predict_locals.result.feature_importance
            names == feature_names_list.names
        IN /\ Cardinality(DOMAIN importance) <= TopFeatures
           /\ DOMAIN importance \subseteq
                 {names[i] : i \in 1..Min(TopFeatures, Len(names))}
           /\ \A n \in DOMAIN importance :
                 /\ importance[n].k = "fin"
                 /\ 0 <= importance[n].num
                 /\ importance[n].num <= importance[n].max
====
